---- MODULE Spec2Model ----
(***************************************************************************)
(* A model of the CHIP-8 emulator of src/src/main.rs: the Chip8 struct,    *)
(* its methods (load_rom, fetch, execute and the op_* handlers) and the    *)
(* frame loop of main.                                                     *)
(*                                                                         *)
(* The struct is the record chip8, with the fields of the Rust struct and  *)
(* one more, fault, which records a Rust panic raised inside a method (an  *)
(* out-of-range index, a failed expect, an arithmetic overflow in a build  *)
(* with overflow checks).  A panic unwinds out of main: no action is       *)
(* enabled afterwards.  The record keeps the writes made before the panic. *)
(***************************************************************************)
EXTENDS Integers, Sequences, FiniteSets, TLC

VARIABLES
    chip8,                   \* the Chip8 instance of main
    overflow_checks,         \* build profile: TRUE = debug (overflow panics), FALSE = release (wraps)
    phase,                   \* position of main: load, frame, loop, execute, tick, exited, panicked
    opcode,                  \* main's local opcode, the word fetch returned
    remaining,               \* iterations left of `for _ in 0..instructions_per_frame`
    instructions_per_frame,  \* main's local
    beeping,                 \* main's local
    sink,                    \* the rodio Sink: sources queued, and the call made by the latest tick
    rom_file,                \* the file at rom_path: readable or not, and its bytes
    load_result              \* what load_rom returned to main: none (not called yet), Ok, Err

vars == <<chip8, overflow_checks, phase, opcode, remaining, instructions_per_frame,
          beeping, sink, rom_file, load_result>>

-----------------------------------------------------------------------------
(* Program constants *)

MemSize == 4096
NumRegs == 16
DisplayWidth == 64
DisplayHeight == 32
NumKeys == 16
RomBase == 512
HaltPc == 4094
DefaultIpf == 10
MaxIpf == 50
MinIpf == 2
U8 == 256
U16 == 65536

NoFault == "none"
IndexPanic == "index out of bounds"
OverflowPanic == "arithmetic overflow"
ExpectPanic == "Couldn't pop addr from stack!"

FONTSET ==
    << 240, 144, 144, 144, 240,
        32,  96,  32,  32, 112,
       240,  16, 240, 128, 240,
       240,  16, 240,  16, 240,
       144, 144, 240,  16,  16,
       240, 128, 240,  16, 240,
       240, 128, 240, 144, 240,
       240,  16,  32,  64,  64,
       240, 144, 240, 144, 240,
       240, 144, 240,  16, 240,
       240, 144, 240, 144, 144,
       224, 144, 224, 144, 224,
       240, 128, 128, 128, 240,
       224, 144, 144, 144, 224,
       240, 128, 240, 128, 240,
       240, 128, 240, 128, 128 >>

-----------------------------------------------------------------------------
(* Bit operations on machine words, computed digit by digit *)

RECURSIVE BitAnd(_, _)
BitAnd(a, b) ==
    IF a = 0 \/ b = 0 THEN 0
    ELSE (a % 2) * (b % 2) + 2 * BitAnd(a \div 2, b \div 2)

RECURSIVE BitOr(_, _)
BitOr(a, b) ==
    IF a = 0 THEN b
    ELSE IF b = 0 THEN a
    ELSE (IF a % 2 = 1 \/ b % 2 = 1 THEN 1 ELSE 0) + 2 * BitOr(a \div 2, b \div 2)

RECURSIVE BitXor(_, _)
BitXor(a, b) ==
    IF a = 0 THEN b
    ELSE IF b = 0 THEN a
    ELSE ((a + b) % 2) + 2 * BitXor(a \div 2, b \div 2)

\* (opcode & 0x0F00) >> 8
OpX(op) == (op \div 256) % 16
\* (opcode & 0x00F0) >> 4
OpY(op) == (op \div 16) % 16
\* opcode & 0x000F
OpN(op) == op % 16
\* opcode & 0x00FF
OpNN(op) == op % 256
\* opcode & 0x0FFF
OpNNN(op) == op % 4096
\* (opcode & 0xF000) >> 12, the nibble execute matches on
OpFamily(op) == op \div 4096

-----------------------------------------------------------------------------
(* Chip8::new *)

New ==
    [ memory      |-> [a \in 0..(MemSize - 1) |-> IF a < Len(FONTSET) THEN FONTSET[a + 1] ELSE 0],
      v           |-> [r \in 0..(NumRegs - 1) |-> 0],
      i           |-> 0,
      pc          |-> RomBase,
      stack       |-> << >>,
      delay_timer |-> 0,
      sound_timer |-> 0,
      display     |-> [y \in 0..(DisplayHeight - 1) |-> [x \in 0..(DisplayWidth - 1) |-> FALSE]],
      keys        |-> [k \in 0..(NumKeys - 1) |-> FALSE],
      fault       |-> NoFault ]

Panic(c, msg) == [c EXCEPT !.fault = msg]

(* Chip8::load_rom on the bytes fs::read returned: the slice
   memory[0x200..0x200 + len] is bounds-checked before anything is copied. *)
load_rom(c, rom_data) ==
    IF RomBase + Len(rom_data) > MemSize
    THEN Panic(c, IndexPanic)
    ELSE [c EXCEPT !.memory =
             [a \in 0..(MemSize - 1) |->
                 IF a >= RomBase /\ a < RomBase + Len(rom_data)
                 THEN rom_data[a - RomBase + 1] ELSE @[a]]]

(* Chip8::fetch: the word it returns, and the struct as it leaves it.  Both
   reads of memory are bounds-checked. *)
FetchWord(c) ==
    IF c.pc + 1 >= MemSize THEN 0
    ELSE c.memory[c.pc] * 256 + c.memory[c.pc + 1]

fetch(c) ==
    IF c.pc + 1 >= MemSize THEN Panic(c, IndexPanic)
    ELSE [c EXCEPT !.pc = c.pc + 2]

-----------------------------------------------------------------------------
(* The handlers of execute.  Each takes the struct and returns it as the
   handler leaves it; statements are applied in the order of the source. *)

\* 0x00E0 arm of execute
op_00e0(c) ==
    [c EXCEPT !.display = [y \in 0..(DisplayHeight - 1) |-> [x \in 0..(DisplayWidth - 1) |-> FALSE]]]

\* a return that takes the oldest address instead of the newest
op_00ee_oldest_first(c) ==
    IF Len(c.stack) = 0
    THEN Panic(c, ExpectPanic)
    ELSE [c EXCEPT !.pc = c.stack[1],
                   !.stack = SubSeq(c.stack, 2, Len(c.stack))]

op_00ee(c) ==
    IF Len(c.stack) = 0
    THEN Panic(c, ExpectPanic)
    ELSE [c EXCEPT !.pc = c.stack[Len(c.stack)],
                   !.stack = SubSeq(c.stack, 1, Len(c.stack) - 1)]

\* 0x1000 arm of execute
op_1nnn(c, nnn) == [c EXCEPT !.pc = nnn]

op_2nnn(c, nnn) == [c EXCEPT !.stack = Append(c.stack, c.pc), !.pc = nnn]

\* a skip that steps over one byte instead of one instruction
Skip_one_byte(c) == [c EXCEPT !.pc = c.pc + 1]

\* `self.pc += 2` of the skip handlers, on a u16
Skip(c) ==
    IF c.pc + 2 >= U16
    THEN IF overflow_checks THEN Panic(c, OverflowPanic) ELSE [c EXCEPT !.pc = (c.pc + 2) % U16]
    ELSE [c EXCEPT !.pc = c.pc + 2]

op_3xnn(c, x, nn) == IF c.v[x] = nn THEN Skip(c) ELSE c

op_4xnn(c, x, nn) == IF c.v[x] # nn THEN Skip(c) ELSE c

op_5xy0(c, x, y) == IF c.v[x] = c.v[y] THEN Skip(c) ELSE c

op_9xy0(c, x, y) == IF c.v[x] # c.v[y] THEN Skip(c) ELSE c

\* a load that adds to the register instead of overwriting it
op_6xnn_adds(c, x, nn) == [c EXCEPT !.v[x] = (c.v[x] + nn) % U8]

\* 0x6000 arm of execute
op_6xnn(c, x, nn) == [c EXCEPT !.v[x] = nn]

\* 0x7000 arm of execute: wrapping_add
op_7xnn(c, x, nn) == [c EXCEPT !.v[x] = (c.v[x] + nn) % U8]

op_8xy0(c, x, y) == [c EXCEPT !.v[x] = c.v[y]]

op_8xy1(c, x, y) == [c EXCEPT !.v[x] = BitOr(c.v[x], c.v[y])]

op_8xy2(c, x, y) == [c EXCEPT !.v[x] = BitAnd(c.v[x], c.v[y])]

op_8xy3(c, x, y) == [c EXCEPT !.v[x] = BitXor(c.v[x], c.v[y])]

op_8xy4(c, x, y) ==
    LET sum == c.v[x] + c.v[y]
        c1  == [c EXCEPT !.v[15] = IF sum > 255 THEN 1 ELSE 0]
    IN  [c1 EXCEPT !.v[x] = sum % U8]

op_8xy5(c, x, y) ==
    LET c1 == [c EXCEPT !.v[15] = IF c.v[x] >= c.v[y] THEN 1 ELSE 0]
    IN  [c1 EXCEPT !.v[x] = (c1.v[x] - c1.v[y]) % U8]

op_8xy6(c, x, y) ==
    LET c1 == [c EXCEPT !.v[15] = c.v[x] % 2]
    IN  [c1 EXCEPT !.v[x] = c1.v[x] \div 2]

\* `self.v[y] - self.v[x]` is a plain u8 subtraction
op_8xy7(c, x, y) ==
    LET c1 == [c EXCEPT !.v[15] = IF c.v[y] >= c.v[x] THEN 1 ELSE 0]
    IN  IF c1.v[y] < c1.v[x] /\ overflow_checks
        THEN Panic(c1, OverflowPanic)
        ELSE [c1 EXCEPT !.v[x] = (c1.v[y] - c1.v[x]) % U8]

op_8xye(c, x, y) ==
    LET c1 == [c EXCEPT !.v[15] = (c.v[x] \div 128) % 2]
    IN  [c1 EXCEPT !.v[x] = (c1.v[x] * 2) % U8]

\* 0xA000 arm of execute
op_annn(c, nnn) == [c EXCEPT !.i = nnn]

op_bnnn(c, nnn) == [c EXCEPT !.pc = nnn + c.v[0]]

op_cxnn(c, x, nn, random_byte) == [c EXCEPT !.v[x] = BitAnd(random_byte, nn)]

op_fx07(c, x) == [c EXCEPT !.v[x] = c.delay_timer]

op_fx15(c, x) == [c EXCEPT !.delay_timer = c.v[x]]

op_fx18(c, x) == [c EXCEPT !.sound_timer = c.v[x]]

op_fx1e(c, x) ==
    IF c.i + c.v[x] >= U16
    THEN IF overflow_checks THEN Panic(c, OverflowPanic) ELSE [c EXCEPT !.i = (c.i + c.v[x]) % U16]
    ELSE [c EXCEPT !.i = c.i + c.v[x]]

op_fx29(c, x) == [c EXCEPT !.i = c.v[x] * 5]

\* one `self.memory[addr] = value`, bounds-checked
MemWrite(c, addr, value) ==
    IF c.fault # NoFault THEN c
    ELSE IF addr >= MemSize THEN Panic(c, IndexPanic)
    ELSE [c EXCEPT !.memory[addr] = value]

op_fx33(c, x) ==
    LET c1 == MemWrite(c, c.i, c.v[x] \div 100)
        c2 == MemWrite(c1, c.i + 1, (c.v[x] \div 10) % 10)
    IN  MemWrite(c2, c.i + 2, c.v[x] % 10)

RECURSIVE StoreRegs(_, _, _)
StoreRegs(c, x, misc) ==
    IF misc > x \/ c.fault # NoFault THEN c
    ELSE StoreRegs(MemWrite(c, c.i + misc, c.v[misc]), x, misc + 1)

\* a store that leaves I after the last byte written, as some interpreters do
op_fx55_advances_i(c, x) ==
    LET c1 == StoreRegs(c, x, 0)
    IN  IF c1.fault # NoFault THEN c1 ELSE [c1 EXCEPT !.i = c.i + x + 1]

op_fx55(c, x) == StoreRegs(c, x, 0)

RECURSIVE LoadRegs(_, _, _)
LoadRegs(c, x, misc) ==
    IF misc > x \/ c.fault # NoFault THEN c
    ELSE IF c.i + misc >= MemSize THEN Panic(c, IndexPanic)
    ELSE LoadRegs([c EXCEPT !.v[misc] = c.memory[c.i + misc]], x, misc + 1)

op_fx65(c, x) == LoadRegs(c, x, 0)

op_ex9e(c, x) ==
    IF c.v[x] >= NumKeys THEN Panic(c, IndexPanic)
    ELSE IF c.keys[c.v[x]] THEN Skip(c) ELSE c

op_exa1(c, x) ==
    IF c.v[x] >= NumKeys THEN Panic(c, IndexPanic)
    ELSE IF ~c.keys[c.v[x]] THEN Skip(c) ELSE c

\* the first pressed key of the scan `for i in 0..16`, or NumKeys when none is
FirstKey(keys) ==
    IF \E k \in 0..(NumKeys - 1) : keys[k]
    THEN CHOOSE k \in 0..(NumKeys - 1) : keys[k] /\ \A j \in 0..(k - 1) : ~keys[j]
    ELSE NumKeys

\* a wait that leaves PC after the instruction when no key is down
op_fx0a_no_rewind(c, x) ==
    IF FirstKey(c.keys) < NumKeys
    THEN [c EXCEPT !.v[x] = FirstKey(c.keys)]
    ELSE c

\* a wait that clears the flag of the key it has taken
op_fx0a_consumes_key(c, x) ==
    IF FirstKey(c.keys) < NumKeys
    THEN [c EXCEPT !.v[x] = FirstKey(c.keys), !.keys[FirstKey(c.keys)] = FALSE]
    ELSE [c EXCEPT !.pc = IF c.pc >= 2 THEN c.pc - 2 ELSE 0]

op_fx0a(c, x) ==
    IF FirstKey(c.keys) < NumKeys
    THEN [c EXCEPT !.v[x] = FirstKey(c.keys)]
    ELSE [c EXCEPT !.pc = IF c.pc >= 2 THEN c.pc - 2 ELSE 0]

-----------------------------------------------------------------------------
(* Chip8::op_dxyn *)

\* a blit that reports only the collision of the pixel drawn last
DrawPixel_last_collision(c, screen_x, screen_y) ==
    LET old_pixel == c.display[screen_y][screen_x]
        new_pixel == (old_pixel # TRUE)
    IN  [c EXCEPT !.display[screen_y][screen_x] = new_pixel,
                  !.v[15] = IF old_pixel /\ ~new_pixel THEN 1 ELSE 0]

\* a blit that sets the pixel instead of toggling it
DrawPixel_or(c, screen_x, screen_y) ==
    LET old_pixel == c.display[screen_y][screen_x]
        c1        == [c EXCEPT !.display[screen_y][screen_x] = TRUE]
    IN  IF old_pixel THEN [c1 EXCEPT !.v[15] = 1] ELSE c1

\* the body of `if bit == 1`: toggle one pixel, raise VF on a set -> clear change
DrawPixel(c, screen_x, screen_y) ==
    LET old_pixel == c.display[screen_y][screen_x]
        new_pixel == (old_pixel # TRUE)
        c1        == [c EXCEPT !.display[screen_y][screen_x] = new_pixel]
    IN  IF old_pixel /\ ~new_pixel THEN [c1 EXCEPT !.v[15] = 1] ELSE c1

\* the loop `for col in 0..8` of one row
RECURSIVE DrawCols(_, _, _, _, _, _)
DrawCols(c, sprite_byte, x_start, y_start, row, col) ==
    IF col = 8 THEN c
    ELSE LET bit == (sprite_byte \div (2 ^ (7 - col))) % 2
             c1  == IF bit = 1
                    THEN DrawPixel(c, (x_start + col) % DisplayWidth,
                                      (y_start + row) % DisplayHeight)
                    ELSE c
         IN  DrawCols(c1, sprite_byte, x_start, y_start, row, col + 1)

\* the loop `for row in 0..n`; `self.i + row as u16` is a u16 addition and the
\* read of memory is bounds-checked
RECURSIVE DrawRows(_, _, _, _, _)
DrawRows(c, x_start, y_start, n, row) ==
    IF row >= n THEN c
    ELSE IF c.i + row >= U16 /\ overflow_checks THEN Panic(c, OverflowPanic)
    ELSE LET addr == (c.i + row) % U16
         IN  IF addr >= MemSize THEN Panic(c, IndexPanic)
             ELSE DrawRows(DrawCols(c, c.memory[addr], x_start, y_start, row, 0),
                           x_start, y_start, n, row + 1)

op_dxyn(c, x, y, n) ==
    LET x_start == c.v[x] % DisplayWidth
        y_start == c.v[y] % DisplayHeight
    IN  DrawRows([c EXCEPT !.v[15] = 0], x_start, y_start, n, 0)

-----------------------------------------------------------------------------
(* Chip8::execute: the match on opcode & 0xF000 and the inner matches.
   random_byte is the value rand::random() returns in op_cxnn. *)

execute(c, op, random_byte) ==
    LET x   == OpX(op)
        y   == OpY(op)
        n   == OpN(op)
        nn  == OpNN(op)
        nnn == OpNNN(op)
    IN  CASE OpFamily(op) = 0 ->
                 (CASE op = \h00E0 -> op_00e0(c)
                    [] op = \h00EE -> op_00ee(c)
                    [] OTHER    -> c)
          [] OpFamily(op) = 1  -> op_1nnn(c, nnn)
          [] OpFamily(op) = 2  -> op_2nnn(c, nnn)
          [] OpFamily(op) = 3  -> op_3xnn(c, x, nn)
          [] OpFamily(op) = 4  -> op_4xnn(c, x, nn)
          [] OpFamily(op) = 5  -> op_5xy0(c, x, y)
          [] OpFamily(op) = 6  -> op_6xnn(c, x, nn)
          [] OpFamily(op) = 7  -> op_7xnn(c, x, nn)
          [] OpFamily(op) = 8  ->
                 (CASE n = 0  -> op_8xy0(c, x, y)
                    [] n = 1  -> op_8xy1(c, x, y)
                    [] n = 2  -> op_8xy2(c, x, y)
                    [] n = 3  -> op_8xy3(c, x, y)
                    [] n = 4  -> op_8xy4(c, x, y)
                    [] n = 5  -> op_8xy5(c, x, y)
                    [] n = 6  -> op_8xy6(c, x, y)
                    [] n = 7  -> op_8xy7(c, x, y)
                    [] n = \hE -> op_8xye(c, x, y)
                    [] OTHER  -> c)
          [] OpFamily(op) = 9  -> op_9xy0(c, x, y)
          [] OpFamily(op) = 10 -> op_annn(c, nnn)
          [] OpFamily(op) = 11 -> op_bnnn(c, nnn)
          [] OpFamily(op) = 12 -> op_cxnn(c, x, nn, random_byte)
          [] OpFamily(op) = 13 -> op_dxyn(c, x, y, n)
          [] OpFamily(op) = 14 ->
                 (CASE nn = \h9E -> op_ex9e(c, x)
                    [] nn = \hA1 -> op_exa1(c, x)
                    [] OTHER    -> c)
          [] OpFamily(op) = 15 ->
                 (CASE nn = \h07 -> op_fx07(c, x)
                    [] nn = \h0A -> op_fx0a(c, x)
                    [] nn = \h15 -> op_fx15(c, x)
                    [] nn = \h18 -> op_fx18(c, x)
                    [] nn = \h1E -> op_fx1e(c, x)
                    [] nn = \h29 -> op_fx29(c, x)
                    [] nn = \h33 -> op_fx33(c, x)
                    [] nn = \h55 -> op_fx55(c, x)
                    [] nn = \h65 -> op_fx65(c, x)
                    [] OTHER    -> c)

(* Chip8::update_keys: every flag is overwritten with the host's key state *)
update_keys(c, down) == [c EXCEPT !.keys = [k \in 0..(NumKeys - 1) |-> k \in down]]

-----------------------------------------------------------------------------
(* Bounds of the model *)

\* the host changes the speed at most this many steps of 2 away from the default
MaxSpeedSteps == 1
\* rand::random() is drawn from 0..MaxRandom and 255-MaxRandom..255
MaxRandom == 1
\* 2nnn is not explored past this stack depth
MaxStackDepth == 17

RandomBytes == (0..MaxRandom) \cup ((255 - MaxRandom)..255)

\* the key states the host reports: the sets of keys held down
KeySnapshots == { {}, {0}, {7, 15} }

-----------------------------------------------------------------------------
(* ROM images *)

\* the bytes of a sequence of opcodes, big-endian
Asm(ops) == [k \in 1..(2 * Len(ops)) |->
                IF k % 2 = 1 THEN ops[(k + 1) \div 2] \div 256 ELSE ops[k \div 2] % 256]

\* 1FFE: jump to 4094, where the frame loop stops fetching
Halt == \h1FFE

Readable(bytes) == [ok |-> TRUE, data |-> bytes]
Unreadable == [ok |-> FALSE, data |-> << >>]

-----------------------------------------------------------------------------
(* main *)

InitWith(files) ==
    /\ chip8 = New
    /\ overflow_checks \in BOOLEAN
    /\ phase = "load"
    /\ opcode = 0
    /\ remaining = 0
    /\ instructions_per_frame = DefaultIpf
    /\ beeping = FALSE
    /\ sink = [queued |-> 0, signal |-> "none"]
    /\ rom_file \in files
    /\ load_result = "none"

\* main, lines 448-455: load_rom reads the file (`?` returns its error), then copies
LoadRom ==
    /\ phase = "load"
    /\ IF ~rom_file.ok
       THEN /\ load_result' = "Err"
            /\ phase' = "exited"
            /\ chip8' = chip8
       ELSE LET c == load_rom(chip8, rom_file.data)
            IN  /\ chip8' = c
                /\ IF c.fault # NoFault
                   THEN load_result' = "none" /\ phase' = "panicked"
                   ELSE load_result' = "Ok" /\ phase' = "frame"
    /\ UNCHANGED <<overflow_checks, opcode, remaining, instructions_per_frame, beeping, sink, rom_file>>

\* the speed keys of main, lines 487-494
SpeedUp(ipf) == IF ipf + 2 > MaxIpf THEN MaxIpf ELSE ipf + 2
SpeedDown(ipf) == IF ipf - 2 < MinIpf THEN MinIpf ELSE ipf - 2

\* the head of one iteration of the while loop, lines 484-496
FrameStart ==
    /\ phase = "frame"
    /\ \E down \in KeySnapshots, plus \in BOOLEAN, minus \in BOOLEAN :
          /\ plus => instructions_per_frame < DefaultIpf + 2 * MaxSpeedSteps
          /\ minus => instructions_per_frame > DefaultIpf - 2 * MaxSpeedSteps
          /\ chip8' = update_keys(chip8, down)
          /\ LET ipf1 == IF plus THEN SpeedUp(instructions_per_frame) ELSE instructions_per_frame
                 ipf2 == IF minus THEN SpeedDown(ipf1) ELSE ipf1
             IN  /\ instructions_per_frame' = ipf2
                 /\ remaining' = ipf2
    /\ phase' = "loop"
    /\ UNCHANGED <<overflow_checks, opcode, beeping, sink, rom_file, load_result>>

\* the while condition fails: the window was closed or Escape is down
Exit ==
    /\ phase = "frame"
    /\ phase' = "exited"
    /\ UNCHANGED <<chip8, overflow_checks, opcode, remaining, instructions_per_frame,
                   beeping, sink, rom_file, load_result>>

\* an instruction loop whose guard is `pc > 4094`: the word at 4094 is fetched
Fetch_guard_off_by_one ==
    /\ phase = "loop"
    /\ remaining > 0
    /\ chip8.pc <= HaltPc
    /\ opcode' = FetchWord(chip8)
    /\ chip8' = fetch(chip8)
    /\ phase' = IF chip8'.fault # NoFault THEN "panicked" ELSE "execute"
    /\ UNCHANGED <<overflow_checks, remaining, instructions_per_frame, beeping, sink, rom_file, load_result>>

\* lines 496-501: one more iteration, the pc guard passes, fetch
Fetch ==
    /\ phase = "loop"
    /\ remaining > 0
    /\ chip8.pc < HaltPc
    /\ opcode' = FetchWord(chip8)
    /\ chip8' = fetch(chip8)
    /\ phase' = IF chip8'.fault # NoFault THEN "panicked" ELSE "execute"
    /\ UNCHANGED <<overflow_checks, remaining, instructions_per_frame, beeping, sink, rom_file, load_result>>

\* lines 496-499: the range is exhausted, or the pc guard breaks out
LoopEnd ==
    /\ phase = "loop"
    /\ (remaining = 0 \/ chip8.pc >= HaltPc)
    /\ phase' = "tick"
    /\ UNCHANGED <<chip8, overflow_checks, opcode, remaining, instructions_per_frame,
                   beeping, sink, rom_file, load_result>>

IsCall(op) == OpFamily(op) = 2
IsRandom(op) == OpFamily(op) = 12

\* line 502
Execute ==
    /\ phase = "execute"
    /\ IsCall(opcode) => Len(chip8.stack) < MaxStackDepth
    /\ \E random_byte \in (IF IsRandom(opcode) THEN RandomBytes ELSE {0}) :
          chip8' = execute(chip8, opcode, random_byte)
    /\ IF chip8'.fault # NoFault
       THEN phase' = "panicked" /\ remaining' = remaining
       ELSE phase' = "loop" /\ remaining' = remaining - 1
    /\ UNCHANGED <<overflow_checks, opcode, instructions_per_frame, beeping, sink, rom_file, load_result>>

\* a tick whose decrement is not guarded: a timer at 0 wraps to 255
timers_tick_wrapping(c) ==
    [c EXCEPT !.delay_timer = (@ - 1) % U8, !.sound_timer = (@ - 1) % U8]

\* the two decrements of lines 505-510
timers_tick(c) ==
    LET c1 == IF c.delay_timer > 0 THEN [c EXCEPT !.delay_timer = @ - 1] ELSE c
    IN  IF c1.sound_timer > 0 THEN [c1 EXCEPT !.sound_timer = @ - 1] ELSE c1

\* the timers and the tone, lines 505-518: the tone is started inside the branch
\* that found the sound timer positive, and stopped in the else branch
Tick ==
    /\ phase = "tick"
    /\ chip8' = timers_tick(chip8)
    /\ IF chip8.sound_timer > 0
       THEN /\ beeping' = TRUE
            /\ sink' = IF ~beeping
                       THEN [queued |-> sink.queued + 1, signal |-> "append"]
                       ELSE [sink EXCEPT !.signal = "none"]
       ELSE /\ beeping' = FALSE
            /\ sink' = IF beeping
                       THEN [queued |-> 0, signal |-> "stop"]
                       ELSE [sink EXCEPT !.signal = "none"]
    /\ phase' = "frame"
    /\ UNCHANGED <<overflow_checks, opcode, remaining, instructions_per_frame, rom_file, load_result>>

Next == LoadRom \/ FrameStart \/ Exit \/ Fetch \/ LoopEnd \/ Execute \/ Tick

-----------------------------------------------------------------------------
(* Loading: files of every size class *)

\* a full-size image: a jump to 4094 and then a byte pattern up to the last address
FullRom == [k \in 1..(MemSize - RomBase) |->
               IF k = 1 THEN 31 ELSE IF k = 2 THEN 254 ELSE (k % 251) + 1]
\* one byte more than fits
OversizeRom == [k \in 1..(MemSize - RomBase + 1) |-> (k % 251) + 1]

\* a single byte: the word 0x1F00 jumps to 3840 and the zeros from there are run
OneByteRom == <<31>>

LoadFiles ==
    { Unreadable, Readable(Asm(<<Halt>>)), Readable(OneByteRom),
      Readable(FullRom), Readable(OversizeRom) }

InitLoad == InitWith(LoadFiles)
SpecLoad == InitLoad /\ [][Next]_vars


\* what the claim asks load_rom to return for an image that does not fit
CapacityExceeded == "Err(CapacityExceeded)"

\* the image as load_rom must leave it in memory, every other byte as before
Loaded(mem, data) ==
    [a \in 0..(MemSize - 1) |->
        IF a >= RomBase /\ a <= RomBase + Len(data) - 1 THEN data[a - RomBase + 1] ELSE mem[a]]

(* C1: loading a readable image of more than 4096 - 0x200 = 3584 bytes returns
   the CapacityExceeded error to main, without a panic and with the struct as
   it was; an image of at most 3584 bytes returns Ok with its bytes at
   0x200..0x200+len-1 and nothing else changed. *)
C1_LoadContract ==
    [][ (phase = "load" /\ rom_file.ok) =>
          IF Len(rom_file.data) > MemSize - RomBase
          THEN /\ load_result' = CapacityExceeded
               /\ phase' # "panicked"
               /\ chip8' = chip8
          ELSE /\ load_result' = "Ok"
               /\ chip8' = [chip8 EXCEPT !.memory = Loaded(chip8.memory, rom_file.data)]
      ]_vars

\* the part of C1 the code keeps: an image that fits is copied, whole, to 0x200
C1_FittingImageIsCopied ==
    [][ (phase = "load" /\ rom_file.ok /\ Len(rom_file.data) <= MemSize - RomBase) =>
          /\ load_result' = "Ok"
          /\ phase' = "frame"
          /\ chip8' = [chip8 EXCEPT !.memory = Loaded(chip8.memory, rom_file.data)]
      ]_vars

\* the oversized image was loaded and main panicked
C1_OversizePanics ==
    /\ phase = "panicked"
    /\ rom_file.ok
    /\ Len(rom_file.data) = MemSize - RomBase + 1
    /\ chip8.fault = IndexPanic
    /\ chip8.memory = New.memory


-----------------------------------------------------------------------------
(* Subroutines: calls, returns, a return on an empty stack *)

Ret == \h00EE

\* 200: call 206   202: call 206   204: halt   206: call 20A   208: ret   20A: ret
NestedCallRom == Asm(<<\h2206, \h2206, Halt, \h220A, Ret, Ret>>)
\* 200: call 204   202: halt   204: call 208   206: ret   208: call 20C   20A: ret   20C: ret
DeepCallRom == Asm(<<\h2204, Halt, \h2208, Ret, \h220C, Ret, Ret>>)
\* 200: call 204   202: ret (the stack is empty by then)   204: ret
ReturnTwiceRom == Asm(<<\h2204, Ret, Ret>>)
\* 200: V0 = 4   202: call 208   204: jump 204   208: V1 = 9   20A: ret
CallWithStateRom == Asm(<<\h6004, \h2208, \h1204, Halt, \h6109, Ret>>)
\* a subroutine that calls itself and never returns
RecursionRom == Asm(<<\h2200>>)

CallFiles ==
    { Readable(Asm(<<Ret>>)), Readable(NestedCallRom), Readable(DeepCallRom),
      Readable(ReturnTwiceRom), Readable(CallWithStateRom), Readable(RecursionRom) }

InitCall == InitWith(CallFiles)
SpecCall == InitCall /\ [][Next]_vars

(* C2: 00EE executed with an empty call stack is reported as a stack-underflow
   error: main does not panic, and the struct (PC included) is left as it was. *)
C2_EmptyReturnIsReported ==
    [][ (phase = "execute" /\ opcode = Ret /\ Len(chip8.stack) = 0) =>
          /\ phase' # "panicked"
          /\ chip8'.fault = NoFault
          /\ chip8'.pc = chip8.pc
      ]_vars

\* 00EE was executed on an empty stack and the expect panicked
C2_EmptyReturnPanics ==
    /\ phase = "panicked"
    /\ opcode = Ret
    /\ chip8.fault = ExpectPanic
    /\ Len(chip8.stack) = 0


\* the word at address a, as fetch assembles it
WordAt(mem, a) == mem[a] * 256 + mem[a + 1]

\* k calls, each executed after the fetch that follows the one before
RECURSIVE CallChain(_, _)
CallChain(c, targets) ==
    IF targets = << >> THEN c
    ELSE CallChain(fetch(op_2nnn(c, Head(targets))), Tail(targets))

\* the PCs that k returns produce one after the other, and the struct after the last
RECURSIVE ReturnChain(_, _, _)
ReturnChain(c, k, pcs) ==
    IF k = 0 THEN [c |-> c, pcs |-> pcs]
    ELSE LET c1 == op_00ee(c) IN ReturnChain(c1, k - 1, Append(pcs, c1.pc))

\* the return addresses that CallChain pushes, in the order of the calls
RECURSIVE ReturnAddresses(_, _)
ReturnAddresses(pc0, targets) ==
    IF targets = << >> THEN << >>
    ELSE <<pc0>> \o ReturnAddresses(Head(targets) + 2, Tail(targets))

Reverse(s) == [k \in 1..Len(s) |-> s[Len(s) + 1 - k]]

CallTargets == {\h204, \h20A, \hF00}
CallSequences == UNION { [1..k -> CallTargets] : k \in 1..3 }

(* C4: a 2nnn fetched at address A pushes A+2 and sets PC = nnn; 00EE on a
   non-empty stack sets PC to the address pushed last and removes it; and from
   every state in which a call is about to execute, k nested calls followed
   by k returns give back the return addresses in reverse order and leave
   the stack as it was before the first call. *)
C4_CallStackIsLifo ==
    /\ [][ /\ (phase = "loop" /\ phase' = "execute") =>
                /\ opcode' = WordAt(chip8.memory, chip8.pc)
                /\ chip8' = [chip8 EXCEPT !.pc = chip8.pc + 2]
           /\ (phase = "execute" /\ IsCall(opcode)) =>
                LET A == chip8.pc - 2
                IN  /\ WordAt(chip8.memory, A) = opcode
                    /\ chip8' = [chip8 EXCEPT !.stack = Append(chip8.stack, A + 2),
                                              !.pc = OpNNN(opcode)]
           /\ (phase = "execute" /\ opcode = Ret /\ Len(chip8.stack) > 0) =>
                /\ chip8'.pc = chip8.stack[Len(chip8.stack)]
                /\ chip8'.stack = SubSeq(chip8.stack, 1, Len(chip8.stack) - 1)
                /\ \A k \in 1..Len(chip8'.stack) : chip8'.stack[k] = chip8.stack[k]
         ]_vars
    /\ [] ( (phase = "execute" /\ IsCall(opcode)) =>
              \A targets \in CallSequences :
                 LET called   == CallChain(chip8, targets)
                     returned == ReturnChain(called, Len(targets), << >>)
                 IN  /\ Len(called.stack) = Len(chip8.stack) + Len(targets)
                     /\ returned.pcs = Reverse(ReturnAddresses(chip8.pc, targets))
                     /\ returned.c.stack = chip8.stack
                     /\ returned.c.fault = NoFault )

\* NestedCallRom: the inner return has brought PC back to 208, inside the outer call
C4_NestedReturn ==
    /\ phase = "loop"
    /\ opcode = Ret
    /\ chip8.pc = \h208
    /\ chip8.stack = <<\h202>>
    /\ chip8.fault = NoFault


-----------------------------------------------------------------------------
(* Memory addressed through I: Fx33, Fx55, Fx65, Dxyn, Fx1E *)

IsDraw(op) == OpFamily(op) = \hD
IsBcd(op) == OpFamily(op) = \hF /\ OpNN(op) = \h33
IsStore(op) == OpFamily(op) = \hF /\ OpNN(op) = \h55
IsLoad(op) == OpFamily(op) = \hF /\ OpNN(op) = \h65

\* I = addr, V0 random, V1, V2, VF set, then store V0..Vx and load them back
RoundTripRom(addr, x) ==
    Asm(<<\hA000 + addr, \hC0FF, \h61A5, \h62FF, \h6F5A,
          \hF055 + 256 * x, \hF065 + 256 * x, Halt>>)

\* I = addr, V0 = value, then the three decimal digits of V0 at I, I+1, I+2
BcdRom(addr, value) == Asm(<<\hA000 + addr, \h6000 + value, \hF033, Halt>>)

\* I = addr, then a sprite of n rows read from I..I+n-1
SpriteReadRom(addr, n) == Asm(<<\hA000 + addr, \hD000 + n, Halt>>)

\* I = FFF, then I += V0 (I leaves the 12-bit range), then one access through I
PastEndRom(access) == Asm(<<\hAFFF, \h60FF, \hF01E, access, Halt>>)

\* I = addr and a load of V0..Vx from there
LoadOnlyRom(addr, x) == Asm(<<\hA000 + addr, \hF065 + 256 * x, Halt>>)

MemFiles ==
    { Readable(RoundTripRom(addr, x)) :
          addr \in {\h000, \h300, \hFF0, \hFF1, \hFFE, \hFFF}, x \in {0, 1, 2, 15} }
    \cup { Readable(BcdRom(addr, value)) :
          addr \in {\h300, \hFFD, \hFFE, \hFFF}, value \in {0, 7, 123, 255} }
    \cup { Readable(SpriteReadRom(addr, n)) :
          addr \in {\hFF1, \hFF2, \hFFF}, n \in {0, 1, 2, 15} }
    \cup { Readable(PastEndRom(access)) : access \in {\hF033, \hF055, \hF065, \hD001, \hD000} }
    \cup { Readable(LoadOnlyRom(addr, x)) : addr \in {\h000, \hFF1, \hFFF}, x \in {0, 15} }

InitMem == InitWith(MemFiles)
SpecMem == InitMem /\ [][Next]_vars

(* C3: no instruction that addresses memory through I (Dxyn, Fx33, Fx55,
   Fx65) ends in a crash: an address outside 0..4095 is reported as an error
   result and main does not panic. *)
C3_IndexedAccessNeverCrashes ==
    [][ (phase = "execute" /\ (IsDraw(opcode) \/ IsBcd(opcode) \/ IsStore(opcode) \/ IsLoad(opcode))) =>
          /\ phase' # "panicked"
          /\ chip8'.fault = NoFault
      ]_vars

\* Fx33 at I = FFE wrote the hundreds and the tens and panicked on the ones
C3_BcdPanicsPastEnd ==
    /\ phase = "panicked"
    /\ IsBcd(opcode)
    /\ chip8.i = \hFFE
    /\ chip8.fault = IndexPanic
    /\ chip8.memory[\hFFE] = 2
    /\ chip8.memory[\hFFF] = 5

-----------------------------------------------------------------------------
(* Register loads and the 8xy4 addition *)

IsLoadImmediate(op) == OpFamily(op) = 6
IsAdd(op) == OpFamily(op) = 8 /\ OpN(op) = 4

\* Vx = a, Vy = b, then Vx += Vy
AddRom(x, y, a, b) ==
    Asm(<<\h6000 + 256 * x + a, \h6000 + 256 * y + b, \h8004 + 256 * x + 16 * y, Halt>>)

\* both operands drawn by Cxnn
RandomAddRom == Asm(<<\hC0FF, \hC1FF, \h8014, Halt>>)

\* 200: I = 5   202: VA = 7   204: delay = VA   206: sound = VA   208: draw 5 rows at (0,0)
\* 20A: call 20E   20C: halt   20E: Vx = nn   210: ret
BusyLoadRom(x, nn) ==
    Asm(<<\hA005, \h6A07, \hFA15, \hFA18, \hD005, \h220E, Halt, \h6000 + 256 * x + nn, Ret>>)

AluFiles ==
    { Readable(AddRom(x, y, a, b)) :
          x \in {1, 15}, y \in {1, 2, 15}, a \in {0, 1, 128, 255}, b \in {1, 127, 128, 255} }
    \cup { Readable(RandomAddRom) }
    \cup { Readable(BusyLoadRom(x, nn)) : x \in {0, 5, 10, 15}, nn \in {0, \h42, \hFF} }

InitAlu == InitWith(AluFiles)
SpecAlu == InitAlu /\ [][Next]_vars

(* C5: for all x, y in 0..15 and all values of Vx and Vy, 8xy4 leaves
   VF = 1 if Vx + Vy > 255 and VF = 0 otherwise, and any other Vx holds
   (Vx + Vy) mod 256. *)
C5_AddSetsCarry ==
    [][ (phase = "execute" /\ IsAdd(opcode)) =>
          LET x   == OpX(opcode)
              y   == OpY(opcode)
              sum == chip8.v[x] + chip8.v[y]
          IN  /\ chip8'.v[15] = (IF sum > 255 THEN 1 ELSE 0)
              /\ x # 15 => chip8'.v[x] = sum % 256
      ]_vars

\* what the code does: the sum is stored last, so for x = F it replaces the flag
C5_AddAsCoded ==
    [][ (phase = "execute" /\ IsAdd(opcode)) =>
          LET x   == OpX(opcode)
              y   == OpY(opcode)
              sum == chip8.v[x] + chip8.v[y]
          IN  /\ chip8'.v[x] = sum % 256
              /\ x # 15 => chip8'.v[15] = (IF sum > 255 THEN 1 ELSE 0)
              /\ \A r \in 0..14 : r # x => chip8'.v[r] = chip8.v[r]
      ]_vars

\* 8F14 with VF = 1 and V1 = 1 has run: VF holds the sum 2, not the carry 0
C5_FlagOverwritten ==
    /\ phase = "loop"
    /\ opcode = \h8F14
    /\ chip8.v[1] = 1
    /\ chip8.v[15] = 2

(* C9: for all x in 0..15 and nn in 0..255, execute(0x6000 | x<<8 | nn) sets
   Vx = nn and leaves every other register, I, PC, the stack, memory, the
   display, both timers and the key snapshot unchanged. *)
C9_LoadImmediateFrame ==
    [][ (phase = "execute" /\ IsLoadImmediate(opcode)) =>
          LET x  == OpX(opcode)
              nn == OpNN(opcode)
          IN  /\ chip8'.v[x] = nn
              /\ \A r \in 0..(NumRegs - 1) : r # x => chip8'.v[r] = chip8.v[r]
              /\ chip8'.i = chip8.i
              /\ chip8'.pc = chip8.pc
              /\ chip8'.stack = chip8.stack
              /\ chip8'.memory = chip8.memory
              /\ chip8'.display = chip8.display
              /\ chip8'.delay_timer = chip8.delay_timer
              /\ chip8'.sound_timer = chip8.sound_timer
              /\ chip8'.keys = chip8.keys
              /\ chip8'.fault = NoFault
              /\ phase' = "loop"
      ]_vars

\* BusyLoadRom: 6F42 has run inside the subroutine, with the timers set, a
\* sprite on the display and a return address on the stack
C9_LoadedInBusyState ==
    /\ phase = "loop"
    /\ opcode = \h6F42
    /\ chip8.v[15] = \h42
    /\ chip8.v[10] = 7
    /\ chip8.i = 5
    /\ chip8.pc = \h210
    /\ chip8.stack = <<\h20C>>
    /\ chip8.delay_timer = 7
    /\ chip8.sound_timer = 7
    /\ chip8.display[0][2]


-----------------------------------------------------------------------------
(* Words outside the instruction set *)

\* the opcode patterns of the instruction set: 00E0, 00EE, 1nnn, 2nnn, 3xnn,
\* 4xnn, 5xy0, 6xnn, 7xnn, 8xy0-8xy7, 8xyE, 9xy0, Annn, Bnnn, Cxnn, Dxyn, Ex9E,
\* ExA1, Fx07, Fx0A, Fx15, Fx18, Fx1E, Fx29, Fx33, Fx55, Fx65
Listed(op) ==
    \/ op = \h00E0
    \/ op = \h00EE
    \/ OpFamily(op) \in {1, 2, 3, 4, 6, 7, \hA, \hB, \hC, \hD}
    \/ OpFamily(op) = 5 /\ OpN(op) = 0
    \/ OpFamily(op) = 8 /\ OpN(op) \in (0..7) \cup {\hE}
    \/ OpFamily(op) = 9 /\ OpN(op) = 0
    \/ OpFamily(op) = \hE /\ OpNN(op) \in {\h9E, \hA1}
    \/ OpFamily(op) = \hF /\ OpNN(op) \in {\h07, \h0A, \h15, \h18, \h1E, \h29, \h33, \h55, \h65}

\* V0 = 5, V1 = 5, V2 = 7, I = 123, then the word, then two halts (the second
\* for a word that skips)
WordRom(word) == Asm(<<\h6005, \h6105, \h6207, \hA123, word, Halt, Halt>>)

UnlistedWords ==
    { \h0000, \h0123, \h00E1, \h00EF, \h0FFF,
      \h5011, \h5021, \h501F, \h9021, \h9011, \h902F,
      \h8018, \h801D, \h801F,
      \hE000, \hE09F, \hE1A2,
      \hF000, \hF108, \hF2FF, \hF166 }

ListedWords == { \h00E0, \h5010, \h5020, \h9020, \h8014, \hE09E, \hF11E }

DecodeFiles == { Readable(WordRom(word)) : word \in UnlistedWords \cup ListedWords }

InitDecode == InitWith(DecodeFiles)
SpecDecode == InitDecode /\ [][Next]_vars

(* C10: a word that matches none of the listed opcode patterns is ignored:
   its fetch advances PC by exactly 2 and changes nothing else, its execute
   changes nothing at all and does not fault, and the loop goes on. *)
C10_UnlistedWordIsIgnored ==
    [][ /\ (phase = "loop" /\ phase' = "execute" /\ ~Listed(opcode')) =>
              chip8' = [chip8 EXCEPT !.pc = chip8.pc + 2]
        /\ (phase = "execute" /\ ~Listed(opcode)) =>
              /\ chip8' = chip8
              /\ phase' = "loop"
      ]_vars

\* what the code does: the low nibble of 5xy_ and 9xy_ is not decoded, so these
\* words skip like 5xy0 and 9xy0; every other unlisted word is ignored
C10_AsCoded ==
    [][ (phase = "execute" /\ ~Listed(opcode)) =>
          /\ phase' = "loop"
          /\ chip8' = IF OpFamily(opcode) = 5 THEN op_5xy0(chip8, OpX(opcode), OpY(opcode))
                      ELSE IF OpFamily(opcode) = 9 THEN op_9xy0(chip8, OpX(opcode), OpY(opcode))
                      ELSE chip8
      ]_vars

\* 5011 has run with V0 = V1: PC is 4 past the word, not 2
C10_UnlistedWordSkips ==
    /\ phase = "loop"
    /\ opcode = \h5011
    /\ chip8.v[0] = chip8.v[1]
    /\ chip8.pc = \h20C


-----------------------------------------------------------------------------
(* Sprites *)

\* fifteen rows of sprite data, placed after the code at 210
SpriteData ==
    <<\hFF, \h81, \h3C, \h01, \h80, \h00, \hAA, \h55, \hFF, \h18, \h24, \h42, \h99, \hC3, \hE7>>
SpriteAddr == \h210

DrawOp(x, y, n) == \hD000 + 256 * x + 16 * y + n

\* the two instructions that follow the first draw
DrawAgain(x, y, n) == <<DrawOp(x, y, n), Halt>>
DrawShifted(x, y, n) == <<\h7001 + 256 * x, DrawOp(x, y, n)>>
DrawAfterClear(x, y, n) == <<\h00E0, DrawOp(x, y, n)>>

DrawTail(kind, x, y, n) ==
    CASE kind = "again"   -> DrawAgain(x, y, n)
      [] kind = "shifted" -> DrawShifted(x, y, n)
      [] kind = "cleared" -> DrawAfterClear(x, y, n)

\* 200: I = addr   202: Vx = vx   204: Vy = vy   206: draw   208, 20A: tail
\* 20C, 20E: halt   210: the sprite data
DrawRom(x, y, vx, vy, addr, n, kind) ==
    Asm(<<\hA000 + addr, \h6000 + 256 * x + vx, \h6000 + 256 * y + vy, DrawOp(x, y, n)>>
        \o DrawTail(kind, x, y, n) \o <<Halt, Halt>>) \o SpriteData

DrawFiles ==
    { Readable(DrawRom(0, 1, vx, vy, SpriteAddr, n, "again")) :
          vx \in {0, 60, 100}, vy \in {0, 31, 40}, n \in {1, 15} }
    \cup { Readable(DrawRom(r[1], r[2], 61, 30, SpriteAddr, 5, kind)) :
          r \in {<<2, 2>>, <<15, 1>>, <<1, 15>>}, kind \in {"again", "shifted"} }
    \cup { Readable(DrawRom(0, 1, vx, 29, addr, n, kind)) :
          vx \in {2, 62}, addr \in {SpriteAddr, \h000}, n \in {0, 4, 15},
          kind \in {"shifted", "cleared"} }
    \cup { Readable(DrawRom(0, 1, 63, 31, addr, n, "again")) :
          addr \in {\hFF1, \h04B}, n \in {5, 15} }

InitDraw == InitWith(DrawFiles)
SpecDraw == InitDraw /\ [][Next]_vars

Blank == [y \in 0..(DisplayHeight - 1) |-> [x \in 0..(DisplayWidth - 1) |-> FALSE]]

\* bit col of a sprite byte, most significant first
SpriteBit(byte, col) == BitAnd(byte, 128 \div (2 ^ col)) # 0

\* the pixels <<x, y>> that the n-row sprite at mem[addr..] covers from origin
\* (ox, oy), columns and rows wrapping
SpritePixels(mem, addr, n, ox, oy) ==
    { <<(ox + rc[2]) % DisplayWidth, (oy + rc[1]) % DisplayHeight>> :
          rc \in { p \in (0..(n - 1)) \X (0..7) : SpriteBit(mem[addr + p[1]], p[2]) } }

SpriteInBounds(c, n) == n = 0 \/ c.i + n - 1 <= MemSize - 1

(* C6: Dxyn with the sprite bytes in bounds XORs the sprite into the display
   from origin (Vx mod 64, Vy mod 32), bit col of row r at
   ((origin_x + col) mod 64, (origin_y + r) mod 32), changes no other pixel,
   and leaves VF = 1 if a pixel of the sprite went from set to clear and
   VF = 0 otherwise. *)
C6_DrawIsWrappedXor ==
    [][ (phase = "execute" /\ IsDraw(opcode) /\ SpriteInBounds(chip8, OpN(opcode))) =>
          LET ox  == chip8.v[OpX(opcode)] % 64
              oy  == chip8.v[OpY(opcode)] % 32
              lit == SpritePixels(chip8.memory, chip8.i, OpN(opcode), ox, oy)
          IN  /\ chip8'.fault = NoFault
              /\ \A py \in 0..31 : \A px \in 0..63 :
                    chip8'.display[py][px] = (chip8.display[py][px] # (<<px, py>> \in lit))
              /\ chip8'.v[15] = (IF \E p \in lit : chip8.display[p[2]][p[1]] THEN 1 ELSE 0)
      ]_vars

\* DrawShifted: 15 rows drawn at (62, 29) and again at (63, 29).  Row 0 (FF)
\* wrapped past column 63 both times: columns 62 and 6 of line 29 stay lit, the
\* columns between went from set to clear (VF = 1).  Row 3 (01) wrapped past
\* line 31: columns 5 and 6 of line 0 are lit.
C6_WrappedWithCollision ==
    /\ phase = "loop"
    /\ opcode = DrawOp(0, 1, 15)
    /\ chip8.i = SpriteAddr
    /\ chip8.v[0] = 63
    /\ chip8.v[1] = 29
    /\ chip8.v[15] = 1
    /\ chip8.pc = \h20C
    /\ chip8.display[29][62] /\ chip8.display[29][6]
    /\ ~chip8.display[29][63] /\ ~chip8.display[29][0] /\ ~chip8.display[29][5]
    /\ chip8.display[0][5] /\ chip8.display[0][6]

(* C7: for a Dxyn about to execute with its sprite in bounds, a second Dxyn
   with the same I, the same sprite bytes and the same origin restores the
   display that existed before the first; and from a cleared display, with a
   sprite that has a set bit and n in 1..15, the first draw sets exactly the
   sprite's pixels with VF = 0 and the second returns the display to
   all-false with VF = 1. *)
C7_DrawTwiceRestores ==
    (phase = "execute" /\ IsDraw(opcode) /\ SpriteInBounds(chip8, OpN(opcode))) =>
        LET x      == OpX(opcode)
            y      == OpY(opcode)
            n      == OpN(opcode)
            ox     == chip8.v[x] % 64
            oy     == chip8.v[y] % 32
            lit    == SpritePixels(chip8.memory, chip8.i, n, ox, oy)
            first  == op_dxyn(chip8, x, y, n)
            second == op_dxyn(first, x, y, n)
        IN  (first.v[x] % 64 = ox /\ first.v[y] % 32 = oy) =>
               /\ second.fault = NoFault
               /\ second.display = chip8.display
               /\ (chip8.display = Blank /\ n >= 1 /\ lit # {}) =>
                     /\ \A py \in 0..31 : \A px \in 0..63 :
                           first.display[py][px] = (<<px, py>> \in lit)
                     /\ first.v[15] = 0
                     /\ second.display = Blank
                     /\ second.v[15] = 1

\* the second of two identical 15-row draws at (60, 31) has run: the display is
\* all-false again and VF = 1
C7_SecondDrawCleared ==
    /\ phase = "loop"
    /\ opcode = DrawOp(0, 1, 15)
    /\ chip8.pc = \h20A
    /\ chip8.v[0] = 60
    /\ chip8.v[1] = 31
    /\ chip8.v[15] = 1
    /\ chip8.display = Blank

-----------------------------------------------------------------------------
(* The timers and the tone *)

IsSetDelay(op) == OpFamily(op) = \hF /\ OpNN(op) = \h15
IsSetSound(op) == OpFamily(op) = \hF /\ OpNN(op) = \h18

\* one word of every instruction of execute, and four words it does not list
InstructionWords ==
    { \h00E0, \h00EE, \h1234, \h2346, \h3A00, \h4A00, \h5AB0, \h6A12, \h7A01,
      \h8AB0, \h8AB1, \h8AB2, \h8AB3, \h8AB4, \h8AB5, \h8AB6, \h8AB7, \h8ABE,
      \h9AB0, \hA123, \hB123, \hCA0F, \hDAB3, \hEA9E, \hEAA1,
      \hFA07, \hFA0A, \hFA15, \hFA18, \hFA1E, \hFA29, \hFA33, \hFA55, \hFA65,
      \h0123, \h8AB8, \hEA00, \hFA00 }

\* V0 = d, V1 = s, delay = V0, sound = V1, V2 = delay, then nothing more
TimerRom(d, s) == Asm(<<\h6000 + d, \h6100 + s, \hF015, \hF118, \hF207, Halt>>)

\* delay = d, a loop at 204 that reads the delay timer until it is 0, then sound = 1
WaitRom(d) == Asm(<<\h6000 + d, \hF015, \hF207, \h3200, \h1204, \h6101, \hF118, Halt>>)

\* sound = 1 in the first frame and, eleven instructions later, once more in the second
RebeepRom == Asm(<<\h6001, \hF018>> \o [k \in 1..11 |-> \h6101] \o <<\hF018, Halt>>)

\* sound = 2 and delay = 3; when the delay has run out (loop at 208), sound = 1
ToneRom == Asm(<<\h6002, \hF018, \h6003, \hF015, \hF207, \h3200, \h1208,
                 \h6001, \hF018, Halt>>)

TimerFiles ==
    { Readable(TimerRom(t[1], t[2])) :
        t \in { <<0, 0>>, <<1, 3>>, <<3, 1>>, <<2, 2>>, <<255, 2>> } }
    \cup { Readable(WaitRom(2)), Readable(RebeepRom), Readable(ToneRom) }

InitTimer == InitWith(TimerFiles)
SpecTimer == InitTimer /\ [][Next]_vars

\* a timer after one frame tick, as the claim states it
Decremented(t) == IF t > 0 THEN t - 1 ELSE 0

\* the struct after k frame ticks and nothing else
RECURSIVE Ticks(_, _)
Ticks(c, k) == IF k = 0 THEN c ELSE Ticks(timers_tick(c), k - 1)

(* C11: a frame tick takes 1 from each timer that is positive and leaves a
   timer at 0 where it is; the timers stay within 0..255; Fx15 writes only
   the delay timer and Fx18 only the sound timer, no other instruction and no
   other step of main writes either; and a timer set to k reads k - j after
   j <= k ticks, 0 after k ticks and 0 after one tick more. *)
C11_TimersTickAndSet ==
    /\ [][ /\ phase = "tick" =>
                /\ chip8'.delay_timer = Decremented(chip8.delay_timer)
                /\ chip8'.sound_timer = Decremented(chip8.sound_timer)
           /\ phase = "execute" =>
                /\ chip8'.delay_timer =
                      IF IsSetDelay(opcode) THEN chip8.v[OpX(opcode)] ELSE chip8.delay_timer
                /\ chip8'.sound_timer =
                      IF IsSetSound(opcode) THEN chip8.v[OpX(opcode)] ELSE chip8.sound_timer
           /\ phase \notin {"tick", "execute"} =>
                /\ chip8'.delay_timer = chip8.delay_timer
                /\ chip8'.sound_timer = chip8.sound_timer
         ]_vars
    /\ [] ( /\ chip8.delay_timer \in 0..(U8 - 1)
            /\ chip8.sound_timer \in 0..(U8 - 1) )
    /\ [] ( phase = "execute" =>
              /\ \A op \in InstructionWords, random_byte \in RandomBytes :
                    LET c == execute(chip8, op, random_byte)
                    IN  /\ ~IsSetDelay(op) => c.delay_timer = chip8.delay_timer
                        /\ ~IsSetSound(op) => c.sound_timer = chip8.sound_timer
              /\ IsSetDelay(opcode) =>
                    LET c == execute(chip8, opcode, 0)
                        k == c.delay_timer
                    IN  /\ k = chip8.v[OpX(opcode)]
                        /\ \A j \in 0..k : Ticks(c, j).delay_timer = k - j
                        /\ Ticks(c, k + 1).delay_timer = 0
              /\ IsSetSound(opcode) =>
                    LET c == execute(chip8, opcode, 0)
                        k == c.sound_timer
                    IN  /\ k = chip8.v[OpX(opcode)]
                        /\ \A j \in 0..k : Ticks(c, j).sound_timer = k - j
                        /\ Ticks(c, k + 1).sound_timer = 0 )

\* TimerRom(3, 1): three ticks after the ROM set delay = 3 and sound = 1, both
\* timers are 0; the sound timer has been 0 for two ticks
C11_CountedDown ==
    /\ phase = "frame"
    /\ chip8.v[0] = 3
    /\ chip8.v[1] = 1
    /\ chip8.v[2] = 3
    /\ chip8.delay_timer = 0
    /\ chip8.sound_timer = 0
    /\ sink.signal = "none"
    /\ sink.queued = 0
    /\ beeping = FALSE

(* C12: the tick that finds the sound timer positive after the tone was off
   issues start-tone; the tick in which the sound timer goes from positive to
   0 issues stop-tone; so when a tick has ended the tone is on iff the sound
   timer is greater than 0; and start is issued only while the tone is off,
   stop only while it is on. *)
C12_ToneFollowsSoundTimer ==
    /\ [][ phase = "tick" =>
             /\ (chip8.sound_timer > 0 /\ sink.queued = 0) => sink'.signal = "append"
             /\ (chip8.sound_timer > 0 /\ chip8'.sound_timer = 0) => sink'.signal = "stop"
             /\ sink'.signal = "append" => sink.queued = 0
             /\ sink'.signal = "stop" => sink.queued > 0
         ]_vars
    /\ [] ( phase = "frame" => (sink.queued > 0 <=> chip8.sound_timer > 0) )

(* C12, as the code has it: the tone is started by the tick that finds the
   sound timer positive and stopped by the first tick that finds it 0, so when
   a tick has ended the tone is on iff that tick found the timer positive;
   main's flag agrees with the sink, which never holds two sources. *)
C12_ToneAsCoded ==
    /\ [][ phase = "tick" =>
             /\ sink'.queued > 0 <=> chip8.sound_timer > 0
             /\ sink'.signal = "append" <=> (chip8.sound_timer > 0 /\ sink.queued = 0)
             /\ sink'.signal = "stop" <=> (chip8.sound_timer = 0 /\ sink.queued > 0)
         ]_vars
    /\ [] ( sink.queued \in {0, 1} /\ (beeping <=> sink.queued = 1) )

\* TimerRom(3, 1): the first tick took the sound timer from 1 to 0 and started
\* the tone; it issued no stop, the tone is on with the timer at 0
C12_ToneOnAtZero ==
    /\ phase = "frame"
    /\ chip8.v[0] = 3
    /\ chip8.v[1] = 1
    /\ chip8.delay_timer = 2
    /\ chip8.sound_timer = 0
    /\ sink = [queued |-> 1, signal |-> "append"]
    /\ beeping = TRUE

-----------------------------------------------------------------------------
(* The key snapshot: Ex9E, ExA1, Fx0A *)

IsWaitKey(op) == OpFamily(op) = \hF /\ OpNN(op) = \h0A
IsSkipIfKey(op) == OpFamily(op) = \hE /\ OpNN(op) = \h9E
IsSkipIfNotKey(op) == OpFamily(op) = \hE /\ OpNN(op) = \hA1

\* V1 = AA, delay = 3, wait for a key into V1 (at 206), V1 += 1, I = 123
WaitKeyRom == Asm(<<\h61AA, \h6003, \hF015, \hF10A, \h7101, \hA123, Halt>>)

\* V0 = k; skip `V1 = 1` if key V0 is pressed; skip `V2 = 1` if it is not
SkipKeyRom(k) == Asm(<<\h6000 + k, \hE09E, \h6101, \hE0A1, \h6201, Halt, Halt>>)

\* V0 = k, then ExA1 first
SkipNotKeyRom(k) == Asm(<<\h6000 + k, \hE0A1, \h6101, Halt, Halt>>)

\* wait for a key into V0, then test that key in the same frame
WaitThenSkipRom == Asm(<<\hF00A, \hE09E, \h6101, \hE0A1, \h6201, Halt, Halt>>)

KeyFiles ==
    { Readable(SkipKeyRom(k)) : k \in {0, 3, 7, 15, 16, 255} }
    \cup { Readable(SkipNotKeyRom(k)) : k \in {15, 16} }
    \cup { Readable(WaitKeyRom), Readable(WaitThenSkipRom) }

InitKey == InitWith(KeyFiles)
SpecKey == InitKey /\ [][Next]_vars

Pressed(keys) == {k \in 0..(NumKeys - 1) : keys[k]}

\* an Fx0A is the next instruction, or has been fetched and is about to run
WaitPending ==
    \/ /\ phase \in {"frame", "loop", "tick"}
       /\ chip8.pc < HaltPc
       /\ IsWaitKey(WordAt(chip8.memory, chip8.pc))
    \/ /\ phase = "execute"
       /\ IsWaitKey(opcode)

(* C13: Fx0A executed with no key pressed changes nothing but PC, which goes
   back to the address of the Fx0A (never below 0); while an Fx0A is pending
   and the snapshot has no pressed key, every step leaves registers, I, stack,
   memory and display as they are and the Fx0A pending, and the frame ticks
   still count the timers down; Fx0A executed with a key pressed sets Vx to
   the smallest pressed key index and leaves PC after the instruction. *)
C13_WaitKeyBlocks ==
    [][ /\ (phase = "execute" /\ IsWaitKey(opcode) /\ Pressed(chip8.keys) = {}) =>
             /\ chip8' = [chip8 EXCEPT !.pc = chip8.pc - 2]
             /\ chip8'.pc >= 0
             /\ WordAt(chip8.memory, chip8'.pc) = opcode
             /\ phase' = "loop"
        /\ (WaitPending /\ Pressed(chip8'.keys) = {}) =>
             /\ WaitPending' \/ phase' = "exited"
             /\ chip8'.v = chip8.v
             /\ chip8'.i = chip8.i
             /\ chip8'.stack = chip8.stack
             /\ chip8'.memory = chip8.memory
             /\ chip8'.display = chip8.display
             /\ chip8'.fault = NoFault
             /\ phase = "tick" =>
                  /\ chip8'.delay_timer = Decremented(chip8.delay_timer)
                  /\ chip8'.sound_timer = Decremented(chip8.sound_timer)
        /\ (phase = "execute" /\ IsWaitKey(opcode) /\ Pressed(chip8.keys) # {}) =>
             /\ chip8'.v[OpX(opcode)] \in Pressed(chip8.keys)
             /\ \A k \in Pressed(chip8.keys) : chip8'.v[OpX(opcode)] <= k
             /\ chip8' = [chip8 EXCEPT !.v[OpX(opcode)] = chip8'.v[OpX(opcode)]]
             /\ WordAt(chip8.memory, chip8'.pc - 2) = opcode
             /\ phase' = "loop"
      ]_vars

\* WaitKeyRom: the Fx0A at 206 has run again in the third frame with no key
\* down; the delay timer has gone from 3 to 1 and nothing after 206 has run
C13_StillWaiting ==
    /\ phase = "loop"
    /\ opcode = \hF10A
    /\ chip8.pc = \h206
    /\ chip8.v[1] = \hAA
    /\ chip8.i = 0
    /\ chip8.delay_timer = 1
    /\ Pressed(chip8.keys) = {}
    /\ remaining < instructions_per_frame

\* WaitKeyRom: keys 7 and F went down while waiting; V1 became 7 and then 8
C13_KeyTaken ==
    /\ phase = "loop"
    /\ opcode = \h7101
    /\ chip8.v[1] = 8
    /\ Pressed(chip8.keys) = {7, 15}
    /\ chip8.delay_timer = 0

(* C14: the key flags change only in the step that opens a frame, before the
   first fetch of that frame, and that step writes all 16 of them from the
   host's key state; fetch and execute change none, whatever the opcode, so
   the key-reading instructions of one frame read the same snapshot. *)
C14_KeysWrittenOncePerFrame ==
    /\ [][ /\ chip8'.keys # chip8.keys => (phase = "frame" /\ phase' = "loop")
           /\ (phase = "frame" /\ phase' = "loop") =>
                /\ remaining' = instructions_per_frame'
                /\ \E down \in KeySnapshots :
                      \A k \in 0..(NumKeys - 1) : chip8'.keys[k] = (k \in down)
           /\ phase \in {"loop", "execute"} => chip8'.keys = chip8.keys
         ]_vars
    /\ [] ( phase = "execute" =>
              \A op \in InstructionWords, random_byte \in RandomBytes :
                 execute(chip8, op, random_byte).keys = chip8.keys )

\* WaitThenSkipRom: with keys 7 and F down, Fx0A took key 7 into V0, Ex9E then
\* skipped `V1 = 1` and ExA1 did not skip `V2 = 1`, all in the first frame
C14_ThreeReadsOneSnapshot ==
    /\ phase = "loop"
    /\ opcode = \h6201
    /\ chip8.v[0] = 7
    /\ chip8.v[1] = 0
    /\ chip8.v[2] = 1
    /\ Pressed(chip8.keys) = {7, 15}
    /\ remaining = instructions_per_frame - 4

IsKeySkip(op) == IsSkipIfKey(op) \/ IsSkipIfNotKey(op)

(* C19: for every Vx in 0..255 Ex9E and ExA1 do not crash; with Vx <= 15 they
   add 2 to PC iff key Vx is pressed (Ex9E) / not pressed (ExA1) and change
   nothing else; with Vx > 15 the result is an error that main is handed, not
   a panic. *)
C19_KeySkipIsSafe ==
    [][ (phase = "execute" /\ IsKeySkip(opcode)) =>
          LET vx == chip8.v[OpX(opcode)]
          IN  /\ vx < NumKeys =>
                   chip8' = IF chip8.keys[vx] <=> IsSkipIfKey(opcode)
                            THEN [chip8 EXCEPT !.pc = chip8.pc + 2]
                            ELSE chip8
              /\ chip8'.fault = NoFault
              /\ phase' # "panicked"
      ]_vars

(* C19, as the code has it: with Vx <= 15 the skip is as stated; with Vx > 15
   the index into keys panics and nothing has been changed. *)
C19_KeySkipAsCoded ==
    [][ (phase = "execute" /\ IsKeySkip(opcode)) =>
          LET vx == chip8.v[OpX(opcode)]
          IN  /\ vx < NumKeys =>
                   /\ chip8' = IF chip8.keys[vx] <=> IsSkipIfKey(opcode)
                               THEN [chip8 EXCEPT !.pc = chip8.pc + 2]
                               ELSE chip8
                   /\ phase' = "loop"
              /\ vx >= NumKeys =>
                   /\ chip8' = [chip8 EXCEPT !.fault = IndexPanic]
                   /\ phase' = "panicked"
      ]_vars

\* SkipKeyRom(16): Ex9E with V0 = 16 has panicked on keys[16]
C19_KeyIndexPanics ==
    /\ phase = "panicked"
    /\ opcode = \hE09E
    /\ chip8.v[0] = 16
    /\ chip8.fault = IndexPanic
    /\ chip8.pc = \h204

-----------------------------------------------------------------------------
(* Subtraction: 8xy5 and 8xy7 *)

IsSub(op) == OpFamily(op) = 8 /\ OpN(op) = 5
IsReverseSub(op) == OpFamily(op) = 8 /\ OpN(op) = 7

\* Vx = a, Vy = b (in this order), then 8xyn
SubRom(n, x, y, a, b) ==
    Asm(<<\h6000 + x * 256 + a, \h6000 + y * 256 + b, \h8000 + x * 256 + y * 16 + n, Halt>>)

\* operands <<x, y, a, b>>: greater, smaller, equal, the extremes, and VF on either side
SubOperands ==
    { <<0, 1, 10, 3>>, <<0, 1, 3, 10>>, <<0, 1, 5, 5>>, <<0, 1, 0, 255>>, <<0, 1, 255, 0>>,
      <<2, 2, 7, 7>>, <<15, 1, 5, 3>>, <<15, 1, 3, 5>>, <<0, 15, 10, 3>>, <<0, 15, 3, 10>>,
      <<15, 15, 9, 9>> }

SubFiles ==
    { Readable(SubRom(n, t[1], t[2], t[3], t[4])) : n \in {5, 7}, t \in SubOperands }

InitSub == InitWith(SubFiles)
SpecSub == InitSub /\ [][Next]_vars

(* C15: for all x, y in 0..15 and all Vx, Vy held before the instruction, 8xy5
   leaves VF = 1 if Vx >= Vy and VF = 0 otherwise, and for x other than 0xF
   leaves Vx = (Vx - Vy) mod 256 of the values held before. *)
C15_SubSetsNoBorrow ==
    [][ (phase = "execute" /\ IsSub(opcode)) =>
          LET x  == OpX(opcode)
              vx == chip8.v[OpX(opcode)]
              vy == chip8.v[OpY(opcode)]
          IN  /\ chip8'.v[15] = IF vx >= vy THEN 1 ELSE 0
              /\ x # 15 => chip8'.v[x] = (vx - vy) % U8
      ]_vars

(* C15, as the code has it: with neither x nor y equal to 0xF the flag and
   the difference are as stated; the flag is written first, so with x = 0xF
   VF ends as (flag - Vy) mod 256 and with y = 0xF Vx ends as
   (Vx - flag) mod 256. *)
C15_SubAsCoded ==
    [][ (phase = "execute" /\ IsSub(opcode)) =>
          LET x    == OpX(opcode)
              y    == OpY(opcode)
              vx   == chip8.v[OpX(opcode)]
              vy   == chip8.v[OpY(opcode)]
              flag == IF vx >= vy THEN 1 ELSE 0
          IN  /\ (x # 15 /\ y # 15) =>
                   chip8' = [chip8 EXCEPT !.v[15] = flag, !.v[x] = (vx - vy) % U8]
              /\ (x = 15 /\ y # 15) => chip8'.v[15] = (flag - vy) % U8
              /\ (x # 15 /\ y = 15) =>
                   /\ chip8'.v[15] = flag
                   /\ chip8'.v[x] = (vx - flag) % U8
              /\ (x = 15 /\ y = 15) => chip8'.v[15] = 0
              /\ phase' = "loop"
      ]_vars

\* SubRom(5, 0, 15, 10, 3): 80F5 with V0 = 10 and VF = 3 has left V0 = 9, not 7
C15_FlagReadAsOperand ==
    /\ phase = "loop"
    /\ opcode = \h80F5
    /\ chip8.v[0] = 9
    /\ chip8.v[15] = 1

(* C16: for all x, y and all 8-bit Vx, Vy, 8xy7 completes without a fault,
   leaves VF = 1 if Vy >= Vx and VF = 0 otherwise, and for x other than 0xF
   leaves Vx = (Vy - Vx) mod 256 of the values held before. *)
C16_ReverseSubWraps ==
    [][ (phase = "execute" /\ IsReverseSub(opcode)) =>
          LET x  == OpX(opcode)
              vx == chip8.v[OpX(opcode)]
              vy == chip8.v[OpY(opcode)]
          IN  /\ chip8'.fault = NoFault
              /\ phase' = "loop"
              /\ chip8'.v[15] = IF vy >= vx THEN 1 ELSE 0
              /\ x # 15 => chip8'.v[x] = (vy - vx) % U8
      ]_vars

(* C16, as the code has it: with neither x nor y equal to 0xF, the result is
   as stated when Vy >= Vx, and when Vy < Vx in a build without overflow
   checks; in a build with overflow checks Vy < Vx panics after VF was set
   to 0. *)
C16_ReverseSubAsCoded ==
    [][ (phase = "execute" /\ IsReverseSub(opcode) /\ OpX(opcode) # 15 /\ OpY(opcode) # 15) =>
          LET x  == OpX(opcode)
              vx == chip8.v[OpX(opcode)]
              vy == chip8.v[OpY(opcode)]
          IN  IF vy < vx /\ overflow_checks
              THEN /\ chip8' = [chip8 EXCEPT !.v[15] = 0, !.fault = OverflowPanic]
                   /\ phase' = "panicked"
              ELSE /\ chip8' = [chip8 EXCEPT !.v[15] = IF vy >= vx THEN 1 ELSE 0,
                                             !.v[x] = (vy - vx) % U8]
                   /\ phase' = "loop"
      ]_vars

\* SubRom(7, 0, 1, 10, 3): 8017 with V0 = 10 and V1 = 3 in a build with
\* overflow checks has panicked on 3 - 10
C16_ReverseSubPanics ==
    /\ phase = "panicked"
    /\ overflow_checks
    /\ opcode = \h8017
    /\ chip8.v[0] = 10
    /\ chip8.v[1] = 3
    /\ chip8.v[15] = 0
    /\ chip8.fault = OverflowPanic

-----------------------------------------------------------------------------
(* The depth of the call stack *)

(* C18: the stack never holds more than 16 return addresses, and a 2nnn
   executed with 16 addresses stacked pushes nothing and is reported as an
   error. *)
C18_StackDepthIsBounded ==
    /\ [] ( Len(chip8.stack) <= 16 )
    /\ [][ (phase = "execute" /\ IsCall(opcode) /\ Len(chip8.stack) >= 16) =>
             /\ chip8'.stack = chip8.stack
             /\ phase' # "loop"
         ]_vars

(* C18, as the code has it: every 2nnn appends to the stack, whatever its
   depth, and execution goes on. *)
C18_CallAlwaysPushes ==
    [][ (phase = "execute" /\ IsCall(opcode)) =>
          /\ chip8'.stack = Append(chip8.stack, chip8.pc)
          /\ chip8'.pc = OpNNN(opcode)
          /\ chip8'.fault = NoFault
          /\ phase' = "loop"
      ]_vars

\* RecursionRom: the subroutine at 200 has called itself 17 times without returning
C18_SeventeenDeep ==
    /\ Len(chip8.stack) = 17
    /\ \A k \in 1..17 : chip8.stack[k] = \h202
    /\ chip8.pc = \h200
    /\ chip8.fault = NoFault
    /\ phase = "loop"

-----------------------------------------------------------------------------
(* The program counter: parity, and the end of memory *)

IsJump(op) == OpFamily(op) = 1
IsJumpOffset(op) == OpFamily(op) = \hB

\* 200: jump 203   203: jump 4094
OddJumpRom == <<\h12, \h03, \h00, \h1F, \hFE>>
\* 200: call 205   202: jump 4094   205: ret
OddCallRom == <<\h22, \h05, \h1F, \hFE, \h00, \h00, \hEE>>
\* 200: V0 = 1   202: jump 204 + V0   205: jump 4094
OddOffsetRom == <<\h60, \h01, \hB2, \h04, \h00, \h1F, \hFE>>

\* 200: V0 = 2          202: jump 204 + V0   206: call 210   208: skip if V0 = 2
\* 20C: wait for a key  20E: jump 4094       210: ret
EvenTargetsRom ==
    Asm(<<\h6002, \hB204, Halt, \h2210, \h3002, Halt, \hF10A, Halt, \h00EE>>)

\* 200: V0 = FF   202: jump FFF + V0, which is 4350
OffsetPastEndRom == Asm(<<\h60FF, \hBFFF>>)

\* a full image: `first` at 200, `last` at 4092 and `7A01` at 4094, zeros between
EndRom(first, last) ==
    [k \in 1..(MemSize - RomBase) |->
        IF k = 1 THEN first \div 256
        ELSE IF k = 2 THEN first % 256
        ELSE IF k = MemSize - RomBase - 3 THEN last \div 256
        ELSE IF k = MemSize - RomBase - 2 THEN last % 256
        ELSE IF k = MemSize - RomBase - 1 THEN \h7A
        ELSE IF k = MemSize - RomBase THEN \h01
        ELSE 0]

\* 200: V0 = 3   202: delay = 3   204: sound = 3   206: jump 4094
TimedHaltRom == Asm(<<\h6003, \hF015, \hF018, Halt>>)

JumpFiles ==
    { Readable(OddJumpRom), Readable(OddCallRom), Readable(OddOffsetRom),
      Readable(EvenTargetsRom), Readable(OffsetPastEndRom), Readable(TimedHaltRom),
      \* 4092: skip if V0 = 0, taken: PC = 4096
      Readable(EndRom(\h1FFC, \h3000)),
      \* 4092: VA = 1, then PC = 4094
      Readable(EndRom(\h1FFC, \h6A01)),
      \* jump 4093: the word 017A at 4093 is fetched and ignored, then PC = 4095
      Readable(EndRom(\h1FFD, \h6A01)) }

InitJump == InitWith(JumpFiles)
SpecJump == InitJump /\ [][Next]_vars

(* C17: PC mod 2 = 0 in every reachable state. *)
C17_PcIsEven == chip8.pc % 2 = 0

\* PC and every stacked return address are even
EvenAddresses(c) ==
    /\ c.pc % 2 = 0
    /\ \A k \in 1..Len(c.stack) : c.stack[k] % 2 = 0

\* the instruction about to execute transfers control to an odd address
OddTransfer ==
    /\ phase = "execute"
    /\ \/ (IsJump(opcode) \/ IsCall(opcode)) /\ OpNNN(opcode) % 2 = 1
       \/ IsJumpOffset(opcode) /\ (OpNNN(opcode) + chip8.v[0]) % 2 = 1

(* C17, amended: PC starts even with an empty stack, and every step other than
   a 1nnn or 2nnn with odd nnn or a Bnnn with nnn + V0 odd keeps PC and the
   stacked return addresses even: fetch, skips, 00EE, the Fx0A rewind, and
   jumps and calls to even targets. *)
C17_PcEvenUnlessOddTarget ==
    /\ [] ( phase = "load" => EvenAddresses(chip8) )
    /\ [][ (EvenAddresses(chip8) /\ ~OddTransfer) => EvenAddresses(chip8') ]_vars

\* EvenTargetsRom: after Bnnn, a call, its return, a taken skip and an Fx0A that
\* found no key, PC is back at 20C
C17_EvenAfterEveryTransfer ==
    /\ phase = "loop"
    /\ opcode = \hF10A
    /\ chip8.pc = \h20C
    /\ chip8.v[0] = 2
    /\ chip8.stack = << >>
    /\ chip8.fault = NoFault

\* OddJumpRom: 1203 has run
C17_OddPc ==
    /\ phase = "loop"
    /\ opcode = \h1203
    /\ chip8.pc = \h203

\* the frame loop does not fetch: the guard of line 497 holds between instructions
Halted ==
    /\ phase \in {"frame", "loop", "tick"}
    /\ chip8.pc >= HaltPc

(* C20: fetch runs only with PC <= 4093, so it reads two addresses within
   0..4095 and never faults, also after Bnnn or a skip has taken PC past 4095;
   and once PC >= 4094 between two instructions no instruction is fetched or
   executed in that frame or a later one: PC, registers, I, stack, memory and
   display keep their values, while the frame ticks still count the timers
   down. *)
C20_NoFetchPastEndAndHaltIsPermanent ==
    [][ /\ phase = "loop" =>
             /\ chip8'.fault = NoFault
             /\ phase' # "panicked"
             /\ phase' = "execute" =>
                  /\ chip8.pc <= MemSize - 3
                  /\ {chip8.pc, chip8.pc + 1} \subseteq 0..(MemSize - 1)
                  /\ opcode' = chip8.memory[chip8.pc] * 256 + chip8.memory[chip8.pc + 1]
        /\ Halted =>
             /\ Halted' \/ phase' = "exited"
             /\ chip8'.pc = chip8.pc
             /\ chip8'.v = chip8.v
             /\ chip8'.i = chip8.i
             /\ chip8'.stack = chip8.stack
             /\ chip8'.memory = chip8.memory
             /\ chip8'.display = chip8.display
             /\ chip8'.fault = NoFault
             /\ phase = "tick" =>
                  /\ chip8'.delay_timer = Decremented(chip8.delay_timer)
                  /\ chip8'.sound_timer = Decremented(chip8.sound_timer)
      ]_vars

\* EndRom(1FFC, 3000): the skip at 4092 took PC to 4096; the frame has ended
\* and the 7A01 at 4094 has not run
C20_HaltedPastEnd ==
    /\ phase = "frame"
    /\ chip8.pc = MemSize
    /\ opcode = \h3000
    /\ chip8.v[10] = 0
    /\ chip8.memory[HaltPc] = \h7A
    /\ chip8.fault = NoFault

\* TimedHaltRom: halted at 4094 with both timers set to 3; two ticks later they read 1
C20_TimersRunAfterHalt ==
    /\ phase = "frame"
    /\ chip8.pc = HaltPc
    /\ chip8.v[0] = 3
    /\ chip8.delay_timer = 1
    /\ chip8.sound_timer = 1

====
